---- MODULE Spec2Model ----
(***************************************************************************)
(* Model of apps/code/block.js: Blockly.ComputerCraft.Block, the           *)
(* metadata-driven base class of the ComputerCraft blocks.                 *)
(*                                                                         *)
(* A JavaScript string is a sequence of pieces.  Strings the code looks    *)
(* into character by character (prefix, funcName, blockName) are sequences *)
(* of one-character pieces; '+' is \o and '' is << >>.  An optional field  *)
(* is << >> when it is absent (undefined) and <<v>> when it holds v.       *)
(***************************************************************************)
EXTENDS Integers, Sequences, FiniteSets, TLC

VARIABLES info, supplied, prefix, colour, slots, blocks, ret

vars == <<info, supplied, prefix, colour, slots, blocks, ret>>

(* ----------------------------- bounds --------------------------------- *)
NumBlocks == 2
MaxLen == 4
MaxParams == 2

(* ------------------------- JavaScript values --------------------------- *)
Absent == << >>
Some(v) == <<v>>
IsPresent(o) == o # << >>
\* truthiness of an optional string: undefined and '' are falsy
TruthyStr(o) == o # << >> /\ o[1] # << >>
\* truthiness of an optional number: undefined and 0 are falsy
TruthyNum(o) == o # << >> /\ o[1] # 0
\* string conversion of an optional string in a concatenation
ToStr(o) == IF o = << >> THEN <<"undefined">> ELSE o[1]

Lower == <<"a","b","c","d","e","f","g","h","i","j","k","l","m",
           "n","o","p","q","r","s","t","u","v","w","x","y","z">>
Upper == <<"A","B","C","D","E","F","G","H","I","J","K","L","M",
           "N","O","P","Q","R","S","T","U","V","W","X","Y","Z">>
IsLower(c) == \E i \in 1..Len(Lower) : Lower[i] = c
IsUpper(c) == \E i \in 1..Len(Upper) : Upper[i] = c
charToLowerCase(c) ==
  IF IsUpper(c) THEN Lower[CHOOSE i \in 1..Len(Upper) : Upper[i] = c] ELSE c
charToUpperCase(c) ==
  IF IsLower(c) THEN Upper[CHOOSE i \in 1..Len(Lower) : Lower[i] = c] ELSE c
toLowerCase(s) == [i \in 1..Len(s) |-> charToLowerCase(s[i])]

(* ----------------------------- constants ------------------------------- *)
BASE_HELP_URL == <<"http://computercraft.info/wiki/">>

NONE == 0
PREVIOUS == 1
NEXT == 2
BOTH == 3

PREFIX_NAME == 1
PREFIX_DD == 2

\* x & bit, for the one-bit masks PREVIOUS and NEXT
BitAnd(x, bit) == IF (x \div bit) % 2 = 1 THEN bit ELSE 0

(* ------------------------ convertFromCamelCase ------------------------- *)
\* does LOWER_TO_UPPER_REGEX_ = /([a-z])(?=[A-Z])/ match at position i of s
LOWER_TO_UPPER_REGEX_(s, i) ==
  IsLower(s[i]) /\ i + 1 <= Len(s) /\ IsUpper(s[i + 1])

RECURSIVE ReplaceFrom(_, _)
\* s.replace(LOWER_TO_UPPER_REGEX_, '$1_') from position i on
ReplaceFrom(s, i) ==
  IF i > Len(s) THEN << >>
  ELSE IF LOWER_TO_UPPER_REGEX_(s, i)
       THEN <<s[i], "_">> \o ReplaceFrom(s, i + 1)
       ELSE <<s[i]>> \o ReplaceFrom(s, i + 1)

RECURSIVE UnderscoreEveryUpper(_, _)
UnderscoreEveryUpper(s, i) ==
  IF i > Len(s) THEN << >>
  ELSE IF i > 1 /\ IsUpper(s[i])
       THEN <<"_", s[i]>> \o UnderscoreEveryUpper(s, i + 1)
       ELSE <<s[i]>> \o UnderscoreEveryUpper(s, i + 1)

convertFromCamelCase_everyUpper(s) == toLowerCase(UnderscoreEveryUpper(s, 1))

convertFromCamelCase(s) == toLowerCase(ReplaceFrom(s, 1))

(* ---------------------------- getBlockName_ ---------------------------- *)
\* [ok |-> FALSE] stands for the goog.asserts.AssertionError
getBlockName_alwaysConvert(pfx, inf) ==
  IF ~TruthyStr(inf.funcName)
  THEN [ok |-> FALSE, name |-> << >>]
  ELSE [ok |-> TRUE,
        name |-> pfx \o <<"_">> \o convertFromCamelCase(inf.funcName[1])]

getBlockName_(pfx, inf) ==
  IF TruthyStr(inf.blockName)
  THEN [ok |-> TRUE, name |-> pfx \o <<"_">> \o inf.blockName[1]]
  ELSE IF ~TruthyStr(inf.funcName)
       THEN [ok |-> FALSE, name |-> << >>]
       ELSE [ok |-> TRUE,
             name |-> pfx \o <<"_">> \o convertFromCamelCase(inf.funcName[1])]

(* ------------------------------ metadata ------------------------------- *)
Undefined == [tag |-> "undefined", val |-> << >>]
NullValue == [tag |-> "null", val |-> << >>]
\* JavaScript truthiness of info.output: undefined, null and '' are falsy,
\* every array is truthy
TruthyOutput(o) ==
  \/ o.tag = "array"
  \/ o.tag = "string" /\ o.val # << >>
\* truthiness of info.tooltip: a function is truthy, '' is falsy
TruthyTooltip(t) ==
  \/ t.tag = "function"
  \/ t.tag = "string" /\ t.val # << >>

NoBlock ==
  [state |-> "none", blockName |-> << >>, hue |-> Absent,
   inputsInline |-> FALSE, helpUrl |-> Absent, tooltip |-> Undefined,
   previousStatement |-> FALSE, nextStatement |-> FALSE,
   outputConnection |-> Absent, multipleOutputs |-> Absent]

Blocks == 1..NumBlocks

NoRet ==
  [op |-> "none", block |-> 0, arg |-> << >>, names |-> << >>,
   val |-> [kind |-> "none", code |-> << >>, order |-> ""]]

(* ----------------------------- constructor ----------------------------- *)
\* new Blockly.ComputerCraft.Block(prefix, colour, info) for block type b;
\* the prototype's fields become those of the host block
Block(b) ==
  /\ blocks[b].state = "none"
  /\ LET n == getBlockName_(prefix, info)
     IN blocks' = [blocks EXCEPT ![b] =
                     IF n.ok
                     THEN [@ EXCEPT !.state = "constructed",
                                    !.blockName = n.name]
                     ELSE [@ EXCEPT !.state = "failed"]]
  /\ UNCHANGED <<info, supplied, prefix, colour, slots, ret>>

(* -------------------------------- init --------------------------------- *)
capitalize(p) ==
  IF p = << >> THEN << >> ELSE <<charToUpperCase(p[1])>> \o Tail(p)

\* lines 147-153: the help URL after init
helpUrlAfter(cur, pfx, inf) ==
  IF inf.helpUrlType = Some(PREFIX_NAME)
  THEN Some(BASE_HELP_URL \o capitalize(pfx) \o <<".">> \o ToStr(inf.funcName))
  ELSE cur

\* lines 154-163: the tooltip after init
tooltipAfter(cur, inf) ==
  IF TruthyTooltip(inf.tooltip) THEN inf.tooltip ELSE cur

\* lines 166-169: the value of info.stmtConns after the defaulting
stmtConnsAfter_noDefault(inf) == inf.stmtConns

stmtConnsAfter_ignoreNone(inf) ==
  IF ~TruthyNum(inf.multipleOutputs) /\ inf.output.tag = "undefined"
  THEN Some(BOTH)
  ELSE inf.stmtConns

stmtConnsAfter_always(inf) == Some(BOTH)

stmtConnsAfter(inf) ==
  IF /\ ~TruthyNum(inf.multipleOutputs)
     /\ inf.output.tag = "undefined"
     /\ inf.stmtConns # Some(NONE)
  THEN Some(BOTH)
  ELSE inf.stmtConns

\* Blockly's setOutput(true, opt_check): an omitted check is null
setOutput(check) == IF check.tag = "undefined" THEN Some(NullValue) ELSE Some(check)

\* lines 176-184: the output connection after init
outputAfter_onlyDeclared(cur, inf) ==
  IF inf.output.tag # "undefined" THEN setOutput(inf.output) ELSE cur

outputAfter(cur, inf) ==
  LET declared == IF inf.output.tag # "undefined"
                  THEN setOutput(inf.output) ELSE cur
  IN IF TruthyNum(inf.multipleOutputs) /\ ~TruthyOutput(inf.output)
     THEN setOutput(Undefined)
     ELSE declared

init(b) ==
  /\ blocks[b].state = "constructed"
  /\ LET conns == stmtConnsAfter(info)
         blk == blocks[b]
     IN /\ info' = [info EXCEPT !.stmtConns = conns]
        /\ blocks' = [blocks EXCEPT ![b] =
             [blk EXCEPT
                !.state = "inited",
                !.hue = Some(colour),
                !.inputsInline = TRUE,
                !.helpUrl = helpUrlAfter(blk.helpUrl, prefix, info),
                !.tooltip = tooltipAfter(blk.tooltip, info),
                !.previousStatement =
                    IF TruthyNum(conns)
                    THEN BitAnd(conns[1], PREVIOUS) # 0
                    ELSE blk.previousStatement,
                !.nextStatement =
                    IF TruthyNum(conns)
                    THEN BitAnd(conns[1], NEXT) # 0
                    ELSE blk.nextStatement,
                !.outputConnection = outputAfter(blk.outputConnection, info),
                !.multipleOutputs =
                    IF TruthyNum(info.multipleOutputs)
                    THEN info.multipleOutputs
                    ELSE blk.multipleOutputs]]
  /\ UNCHANGED <<supplied, prefix, colour, slots, ret>>

(* --------------------------- code generation --------------------------- *)
\* what the host block holds under a parameter name, set up by the subclass:
\* getInput(name) and getTitle_(name); code is what Blockly.Lua.valueToCode returns for the
\* input, result what the subclass's generateDropdownCode returns for the
\* dropdown
NoSlot == [input |-> "none", code |-> << >>, title |-> "none", result |-> << >>]

RECURSIVE join(_, _)
\* Array.prototype.join
join(parts, sep) ==
  IF parts = << >> THEN << >>
  ELSE IF Len(parts) = 1 THEN parts[1]
  ELSE parts[1] \o sep \o join(Tail(parts), sep)

RECURSIVE forEachName(_, _, _, _)
\* the loop of lines 209-229 from the i-th name on; inputsCode is the list
\* built so far, [ok |-> FALSE] a failed assertion
forEachName(names, slotMap, i, inputsCode) ==
  IF i > Len(names) THEN [ok |-> TRUE, inputsCode |-> inputsCode]
  ELSE LET slot == slotMap[names[i]]
       IN IF slot.input # "none"
          THEN IF slot.input # "value"
               THEN [ok |-> FALSE, inputsCode |-> inputsCode]
               ELSE forEachName(names, slotMap, i + 1,
                                Append(inputsCode, slot.code))
          ELSE IF slot.title # "dropdown"
               THEN [ok |-> FALSE, inputsCode |-> inputsCode]
               ELSE IF slot.result # << >>
                    THEN forEachName(names, slotMap, i + 1,
                                     Append(inputsCode, slot.result))
                    ELSE forEachName(names, slotMap, i + 1, inputsCode)

generateLuaInner_inputsFirst(funcName, names, slotMap) ==
  LET ins == SelectSeq(names, LAMBDA n : slotMap[n].input # "none")
      tis == SelectSeq(names, LAMBDA n : slotMap[n].input = "none")
      r == forEachName(ins \o tis, slotMap, 1, << >>)
  IN [ok |-> r.ok,
      code |-> IF r.ok
               THEN funcName \o <<"(">> \o join(r.inputsCode, <<", ">>) \o <<")">>
               ELSE << >>]

\* funcName is what getFuncName() returns, names what
\* getOrderedParameterNames() returns
generateLuaInner_(funcName, names, slotMap) ==
  LET r == forEachName(names, slotMap, 1, << >>)
  IN [ok |-> r.ok,
      code |-> IF r.ok
               THEN funcName \o <<"(">> \o join(r.inputsCode, <<", ">>) \o <<")">>
               ELSE << >>]

\* lines 239-243: the value generateLua returns for the code
generateLuaResult_swapped(code, outputConnection) ==
  IF ~IsPresent(outputConnection)
  THEN [kind |-> "pair", code |-> code, order |-> "ORDER_HIGH"]
  ELSE [kind |-> "string", code |-> code \o <<"\n">>, order |-> ""]

generateLuaResult(code, outputConnection) ==
  IF IsPresent(outputConnection)
  THEN [kind |-> "pair", code |-> code, order |-> "ORDER_HIGH"]
  ELSE [kind |-> "string", code |-> code \o <<"\n">>, order |-> ""]

generateLua(b, funcName, names) ==
  /\ blocks[b].state = "inited"
  /\ LET inner == generateLuaInner_(funcName, names, slots)
     IN ret' = [op |-> "generateLua", block |-> b, arg |-> funcName,
                names |-> names,
                val |-> IF inner.ok
                        THEN generateLuaResult(inner.code,
                                               blocks[b].outputConnection)
                        ELSE [kind |-> "error", code |-> << >>, order |-> ""]]
  /\ UNCHANGED <<info, supplied, prefix, colour, slots, blocks>>

\* a call of the namespace function convertFromCamelCase
callConvertFromCamelCase(s) ==
  /\ ret' = [op |-> "convertFromCamelCase", block |-> 0, arg |-> s,
             names |-> << >>,
             val |-> [kind |-> "string", code |-> convertFromCamelCase(s),
                      order |-> ""]]
  /\ UNCHANGED <<info, supplied, prefix, colour, slots, blocks>>

(* ------------------------------- inputs -------------------------------- *)
turn == <<"t","u","r","n">>
turnLeft == <<"t","u","r","n","L","e","f","t">>
getID == <<"g","e","t","I","D">>
custom == <<"c","u","s","t","o","m">>
os == <<"o","s">>
turtle == <<"t","u","r","t","l","e">>

Outputs ==
  {Undefined, NullValue,
   [tag |-> "string", val |-> <<"Number">>],
   [tag |-> "array", val |-> <<"Number", "String">>]}
Tooltips ==
  {Undefined,
   [tag |-> "string", val |-> <<"Turn the turtle">>],
   [tag |-> "function", val |-> <<"Turn the turtle">>]}

\* metadata that only names the Lua function
PlainInfo ==
  [blockName |-> Absent, funcName |-> Some(turnLeft), output |-> Undefined,
   stmtConns |-> Absent, multipleOutputs |-> Absent, tooltip |-> Undefined,
   helpUrl |-> Absent, helpUrlType |-> Absent]

\* metadata over every shape of connections, tooltip and help
ConnInfos ==
  [blockName : {Absent}, funcName : {Some(turnLeft)}, output : Outputs,
   stmtConns : {Absent} \cup {Some(c) : c \in {NONE, PREVIOUS, NEXT, BOTH}},
   multipleOutputs : {Absent, Some(0), Some(2)}, tooltip : Tooltips,
   helpUrl : {Absent, Some(<<"http://example.org/turn">>)},
   helpUrlType : {Absent, Some(PREFIX_NAME), Some(PREFIX_DD)}]

\* metadata over every shape of the names
NameInfos ==
  {[PlainInfo EXCEPT !.blockName = bn, !.funcName = fn] :
     bn \in {Absent, Some(<< >>), Some(custom)},
     fn \in {Absent, Some(<< >>), Some(turn), Some(turnLeft), Some(getID)}}

GenInfos == {[PlainInfo EXCEPT !.output = o] : o \in {Undefined, NullValue}}

Letters == {"a", "b", "A", "B"}
Strings == UNION {[1..n -> Letters] : n \in 0..MaxLen}

ParamNames == {"x", "dir"}
NameSeqs == UNION {[1..n -> ParamNames] : n \in 0..MaxParams}
ValueInput(c) == [NoSlot EXCEPT !.input = "value", !.code = c]
Dropdown(r) == [NoSlot EXCEPT !.title = "dropdown", !.result = r]
Slots ==
  {NoSlot, ValueInput(<< >>), ValueInput(<<"1">>),
   [NoSlot EXCEPT !.input = "statement"],
   Dropdown(<< >>), Dropdown(<<"north">>),
   [NoSlot EXCEPT !.title = "text"],
   [ValueInput(<<"1">>) EXCEPT !.title = "dropdown", !.result = <<"north">>]}
SlotMaps == [ParamNames -> Slots]
FewSlotMaps == {[n \in ParamNames |-> ValueInput(<<"1">>)]}
FewNameSeqs == {<< >>, <<"x">>}

(* ---------------------------- specifications --------------------------- *)
InitOver(infos, prefixes, slotMaps) ==
  /\ info \in infos
  /\ supplied = info
  /\ prefix \in prefixes
  /\ colour = 120
  /\ slots \in slotMaps
  /\ blocks = [b \in Blocks |-> NoBlock]
  /\ ret = NoRet

NextOver(nameSeqs) ==
  \E b \in Blocks :
    \/ Block(b)
    \/ init(b)
    \/ \E names \in nameSeqs :
         generateLua(b, <<"turtle.turnLeft">>, names)

\* the life of the block types built from one metadata record
Init == InitOver(ConnInfos, {turtle}, FewSlotMaps)
Next == NextOver(FewNameSeqs)
Spec == Init /\ [][Next]_vars

\* the same, over the names
InitName == InitOver(NameInfos, {os, turtle}, FewSlotMaps)
SpecName == InitName /\ [][Next]_vars

\* the same, over the parameters of the generated call
InitGen == InitOver(GenInfos, {turtle}, SlotMaps)
NextGen == NextOver(NameSeqs)
SpecGen == InitGen /\ [][NextGen]_vars

\* calls of convertFromCamelCase
InitConv == InitOver({PlainInfo}, {turtle}, FewSlotMaps)
NextConv == \E s \in Strings : callConvertFromCamelCase(s)
SpecConv == InitConv /\ [][NextConv]_vars

(* ------------------------------- claims -------------------------------- *)
Made(b) == blocks[b].state \in {"constructed", "inited"}
Inited(b) == blocks[b].state = "inited"

\* position i of s starts a run of upper-case letters preceded by a
\* lower-case letter
RunStart(s, i) == i > 1 /\ IsUpper(s[i]) /\ IsLower(s[i - 1])
\* the number of such runs that start at or before position i
RunsUpTo(s, i) == Cardinality({k \in 1..i : RunStart(s, k)})
\* out is s in lower case with one underscore before each such run and no
\* other underscore
FollowsUnderscoreRule(s, out) ==
  /\ Len(out) = Len(s) + RunsUpTo(s, Len(s))
  /\ \A j \in 1..Len(out) : ~IsUpper(out[j])
  /\ \A i \in 1..Len(s) :
       /\ out[i + RunsUpTo(s, i)] = charToLowerCase(s[i])
       /\ RunStart(s, i) => out[i + RunsUpTo(s, i) - 1] = "_"

\* C1: the block name computed at construction is prefix + "_" + suffix,
\* the suffix being blockName verbatim when one is provided and otherwise
\* funcName converted from camel case.
C1_BlockName ==
  \A b \in Blocks : Made(b) =>
    LET name == blocks[b].blockName
        suffix == SubSeq(name, Len(prefix) + 2, Len(name))
    IN /\ Len(name) >= Len(prefix) + 1
       /\ SubSeq(name, 1, Len(prefix) + 1) = prefix \o <<"_">>
       /\ IF TruthyStr(supplied.blockName)
          THEN suffix = supplied.blockName[1]
          ELSE FollowsUnderscoreRule(supplied.funcName[1], suffix)

C1_Witness ==
  /\ prefix = os
  /\ supplied.blockName = Some(custom)
  /\ supplied.funcName = Some(getID)
  /\ Made(1)
  /\ blocks[1].blockName = os \o <<"_">> \o custom

\* C2: convertFromCamelCase of a string of ASCII letters has no upper-case
\* letter, one underscore right before each run of upper-case letters that
\* follows a lower-case letter, and no other underscore.
C2_Convert ==
  ret.op = "convertFromCamelCase" => FollowsUnderscoreRule(ret.arg, ret.val.code)

C2_Witness ==
  /\ ret.op = "convertFromCamelCase"
  /\ ret.arg = <<"a", "A", "B", "b">>
  /\ ret.val.code = <<"a", "_", "a", "b", "b">>

\* C3: generateLua returns the pair (expr, ORDER_HIGH) when the host block
\* has an output connection and expr followed by a newline otherwise, expr
\* being what generateLuaInner_ returns for the block.
C3_GenerateLua ==
  (ret.op = "generateLua" /\ ret.val.kind # "error") =>
    LET expr == generateLuaInner_(ret.arg, ret.names, slots).code
    IN IF IsPresent(blocks[ret.block].outputConnection)
       THEN ret.val = [kind |-> "pair", code |-> expr, order |-> "ORDER_HIGH"]
       ELSE ret.val = [kind |-> "string", code |-> expr \o <<"\n">>, order |-> ""]

C3_Witness ==
  /\ ret.op = "generateLua"
  /\ IsPresent(blocks[ret.block].outputConnection)
  /\ ret.val.kind = "pair"
  /\ ret.names = <<"x">>

\* the fragment a parameter name contributes to the call
Fragment(n) ==
  IF slots[n].input = "value" THEN <<slots[n].code>>
  ELSE IF slots[n].result # << >> THEN <<slots[n].result>> ELSE << >>
RECURSIVE Fragments(_)
Fragments(names) ==
  IF names = << >> THEN << >>
  ELSE Fragments(SubSeq(names, 1, Len(names) - 1)) \o Fragment(names[Len(names)])
\* a name that is neither a value input nor a dropdown title
Unsupported(n) ==
  \/ slots[n].input = "statement"
  \/ slots[n].input = "none" /\ slots[n].title # "dropdown"
\* the expression in the code generateLua returned
ExprOf(val) ==
  IF val.kind = "string" THEN SubSeq(val.code, 1, Len(val.code) - 1) ELSE val.code

\* C4: generateLuaInner_ returns functionName + "(" + the fragments joined
\* by ", " + ")", the fragments in the order of the ordered parameter names;
\* a value input always contributes its code, a dropdown only a non-empty
\* result.
C4_GenerateLuaInner ==
  ret.op = "generateLua" =>
    /\ ret.val.kind = "error" <=>
         \E i \in 1..Len(ret.names) : Unsupported(ret.names[i])
    /\ ret.val.kind # "error" =>
         ExprOf(ret.val) =
           ret.arg \o <<"(">> \o join(Fragments(ret.names), <<", ">>) \o <<")">>

C4_Witness ==
  /\ ret.op = "generateLua"
  /\ ret.names = <<"dir", "x">>
  /\ slots["dir"] = Dropdown(<<"north">>)
  /\ slots["x"] = ValueInput(<<"1">>)
  /\ ExprOf(ret.val) = <<"turtle.turnLeft", "(", "north", ", ", "1", ")">>

\* the connectors of a host block
Connectors(b) ==
  <<blocks[b].previousStatement, blocks[b].nextStatement,
    blocks[b].outputConnection>>
NoOutputs(inf) == inf.output.tag = "undefined" /\ ~TruthyNum(inf.multipleOutputs)

\* C5: with no output, no multipleOutputs and stmtConns unset, init enables
\* the previous and the next connector, and every further init of a block
\* built from the same metadata gives the same connectors.
C5_DefaultBoth ==
  (NoOutputs(supplied) /\ supplied.stmtConns = Absent) =>
    /\ \A b \in Blocks : Inited(b) =>
         blocks[b].previousStatement /\ blocks[b].nextStatement
    /\ \A b, c \in Blocks : (Inited(b) /\ Inited(c)) =>
         Connectors(b) = Connectors(c)

C5_Witness ==
  /\ NoOutputs(supplied) /\ supplied.stmtConns = Absent
  /\ Inited(1) /\ Inited(2)
  /\ blocks[2].previousStatement /\ blocks[2].nextStatement

\* C6: with no output, no multipleOutputs and stmtConns NONE, init enables
\* neither the previous nor the next connector.
C6_NoneSuppresses ==
  (NoOutputs(supplied) /\ supplied.stmtConns = Some(NONE)) =>
    \A b \in Blocks : Inited(b) =>
      ~blocks[b].previousStatement /\ ~blocks[b].nextStatement

C6_Witness ==
  /\ NoOutputs(supplied) /\ supplied.stmtConns = Some(NONE)
  /\ Inited(1)
  /\ ~blocks[1].previousStatement /\ ~blocks[1].nextStatement

\* the URL of HelpUrlType.PREFIX_NAME
PrefixNameUrl ==
  BASE_HELP_URL \o capitalize(prefix) \o <<".">> \o ToStr(supplied.funcName)

\* C7: an explicit helpUrl takes precedence over helpUrlType: init does not
\* replace it with the URL derived from BASE_HELP_URL, the capitalized
\* prefix and funcName.
C7_ExplicitHelpUrlWins ==
  \A b \in Blocks : (Inited(b) /\ IsPresent(supplied.helpUrl)) =>
    blocks[b].helpUrl # Some(PrefixNameUrl)

\* C8, as claimed: the metadata record is immutable, every field keeps the
\* value the caller supplied.
C8_MetadataImmutable == info = supplied

\* C8, amended: every field but stmtConns keeps the value the caller
\* supplied; stmtConns is overwritten, with BOTH, once a block is
\* initialized from metadata that has no output, no multipleOutputs and a
\* stmtConns other than NONE.
C8_OnlyStmtConnsChanges ==
  /\ [info EXCEPT !.stmtConns = supplied.stmtConns] = supplied
  /\ IF /\ \E b \in Blocks : Inited(b)
        /\ NoOutputs(supplied)
        /\ supplied.stmtConns # Some(NONE)
     THEN info.stmtConns = Some(BOTH)
     ELSE info.stmtConns = supplied.stmtConns

C8_Witness ==
  /\ \E b \in Blocks : Inited(b)
  /\ ret.op = "generateLua"
  /\ supplied.stmtConns = Absent
  /\ info.stmtConns = Some(BOTH)

\* C9: when the metadata supplies stmtConns as PREVIOUS or as NEXT, init
\* enables exactly the connectors whose bits are set in the supplied value.
C9_SuppliedBitsHonoured ==
  \A b \in Blocks :
    (Inited(b) /\ supplied.stmtConns \in {Some(PREVIOUS), Some(NEXT)}) =>
      /\ blocks[b].previousStatement = (supplied.stmtConns = Some(PREVIOUS))
      /\ blocks[b].nextStatement = (supplied.stmtConns = Some(NEXT))

\* C10: after init the host block has an output connection iff output is
\* defined (null included) or multipleOutputs is set; its check is the
\* declared output when one is defined, and null when only multipleOutputs
\* is set, and the count is recorded on the block.
C10_OutputConnection ==
  \A b \in Blocks : Inited(b) =>
    /\ IsPresent(blocks[b].outputConnection) <=>
         (supplied.output.tag # "undefined" \/ TruthyNum(supplied.multipleOutputs))
    /\ supplied.output.tag # "undefined" =>
         blocks[b].outputConnection = Some(supplied.output)
    /\ (supplied.output.tag = "undefined" /\ TruthyNum(supplied.multipleOutputs)) =>
         blocks[b].outputConnection = Some(NullValue)
    /\ TruthyNum(supplied.multipleOutputs) =>
         blocks[b].multipleOutputs = supplied.multipleOutputs

C10_Witness ==
  /\ Inited(1)
  /\ supplied.output.tag = "undefined"
  /\ supplied.multipleOutputs = Some(2)
  /\ blocks[1].outputConnection = Some(NullValue)
  /\ blocks[1].multipleOutputs = Some(2)

====
